---- MODULE Spec2Model ----
(***************************************************************************)
(* Credit ledger, commission engine and stats aggregator of the casino     *)
(* back office, as implemented in src/models/User.js,                      *)
(* src/services/commissionService.js and the PUT /:id/credit handler of    *)
(* src/routes/memberRoutes.js.                                             *)
(*                                                                         *)
(* Money is kept in hundredths (cents) as integers.  The commission        *)
(* product betAmount * commissionRate is not a whole number of cents, so   *)
(* it is kept exactly, as a numerator over Scale (1/Scale of a cent).      *)
(* AgentStats.totalCommission is written both through its rounding setter   *)
(* (save) and by a raw $inc (the daily job), so it is kept in 1/Scale of a  *)
(* cent; every other stored amount is in whole cents.                      *)
(* Each action is one store round trip (one await of the source) together  *)
(* with the synchronous code that follows it up to the next await.         *)
(***************************************************************************)
EXTENDS Integers, Sequences, FiniteSets, TLC

\* ------------------------------------------------------------------ bounds
MaxOps == 2
MaxDailyOps == 1
MaxDay == 2
MaxReportDay == 3
MaxIntakeOps == 2

\* ------------------------------------------------------- program constants
\* commissionRate default 0.05, in hundredths (AgentStats.js:16)
DefaultRate == 5
\* the handler passes amount * 0.01 as betAmount (memberRoutes.js:144)
BetPercent == 1
\* credit default 0 (User.js:24): the balance an account is registered with
InitialCredit == 0
\* const commission = creditMovement * 0.01 (reportService.js:36), in percent
ReportPercent == 1
\* isFloat({min: 0.01, max: 1000000}) (memberRoutes.js:47), in cents
MinAmount == 1
MaxAmount == 100000000
\* decimalPart.length > 2 (memberRoutes.js:51)
MaxDecimals == 2
\* one cent = Scale units of the exact commission product:
\* amount[cents] * 0.01 * rate[hundredths]/100 = amount*rate / 10000 cents
Scale == 10000

\* ------------------------------------------------------------- the accounts
Root == "root"
Agents == {"a1", "a2"}
Members == {"m1", "m2", "m3", "m4"}
Users == {Root} \cup Agents \cup Members
None == "none"

\* User.role (User.js:17-21)
Role(u) == IF u = Root THEN "superadmin" ELSE IF u \in Agents THEN "agent" ELSE "member"

\* User.parent (User.js:28-31): agents hang below root (agentRoutes.js:64),
\* members below the agent whose code they registered with
\* (authRoutes.js:56-67); m1 and m3 registered with the code of a1, m4 as a
\* member without any agent code (authRoutes.js:75 takes the role of the body).
Parent(u) ==
  CASE u = "a1" -> Root
    [] u = "a2" -> Root
    [] u = "m1" -> "a1"
    [] u = "m2" -> "a2"
    [] u = "m3" -> "a1"
    [] OTHER -> None

\* accounts a credit adjustment is requested for, and the request bodies
Targets == {"m1", "m2", "a1"}
Requests == {<<4000, "add">>, <<1, "add">>, <<4000, "deduct">>}
Handlers == {"h1", "h2"}
\* the path ids and the bodies of the requests whose validation is modelled:
\* "ghost" is a well-formed id no account is stored under; a body is the
\* amount as a JSON number or as a string, and the type
IntakeIds == {"m1", "m4", "ghost"}
IntakeBodies ==
  { [isString |-> FALSE, text |-> <<"4", "0">>, type |-> "add"],
    [isString |-> FALSE, text |-> <<"0">>, type |-> "add"],
    [isString |-> FALSE, text |-> <<"1", ".", "5", "5", "5">>, type |-> "add"],
    [isString |-> FALSE, text |-> <<"1", "0", "0", "0", "0", "0", "0", ".", "0", "1">>, type |-> "deduct"],
    [isString |-> FALSE, text |-> <<"8", "0">>, type |-> "deduct"],
    [isString |-> TRUE, text |-> <<"0", ".", "0", "1">>, type |-> "add"],
    [isString |-> TRUE, text |-> <<"1", "5", "5", "5", "e", "-", "3">>, type |-> "deduct"] }
\* the running instances of the server process, each with its own cron
\* schedule (reportService.js:9); the request handlers are those of p1
Jobs == {"p1", "p2"}
Days == 1..MaxReportDay

VARIABLES
  credit,        \* User.credit of every stored account, in cents
  transactions,  \* the Transaction collection, in insertion order
  stats,         \* the AgentStats collection, keyed by the account in its agent field
  req,           \* per request handler: position and local variables
  ops,           \* requests started so far
  netOK,         \* per account: net amount of the adjust calls that reported success
  ret,           \* per handler: what its latest calculateCommission call returned,
                 \* in 1/Scale cents
  today,         \* the current calendar day
  reports,       \* the DailyReport collection, keyed by date
  job,           \* per process: position and local variables of its daily cron job
  intake,        \* the latest request received by PUT /:id/credit as it came in:
                 \* path id, body and the answer given before any store write
  accounts,      \* the accounts registered through the two register routes
  query          \* the latest report query: its arguments and what it returned

vars == <<credit, transactions, stats, req, ops, netOK, ret, today, reports, job,
          intake, accounts, query>>

\* ------------------------------------------------------------ pure helpers

\* the schema setter  v => Math.round(v * 100) / 100  applied to a value given
\* as n/Scale cents: round half up to whole cents
Round2(n) == (2 * n + Scale) \div (2 * Scale)

\* const commission = betAmount * agentStats.commissionRate, with
\* betAmount = amount * 0.01; result in 1/Scale cents
Commission(amount, rate) == amount * BetPercent * rate

\* if (commission <= 0) return 0
CommissionSkipped(commission) == commission <= 0

\* this.credit < amount
InsufficientCredit(cur, amount) == cur < amount

\* this.credit += amount / this.credit -= amount, through the credit setter
NewCredit(cur, amount, type) ==
  IF type = "add" THEN Round2((cur + amount) * Scale)
  ELSE Round2((cur - amount) * Scale)

\* ----------------------- request validation (memberRoutes.js:44-65, 103-112)
\* The amount of a request body is a JSON number or a string (a JSON string,
\* or any field of an urlencoded body, server.js:43-44).  Its text, the result
\* of value.toString(), is a sequence of one-character strings.

Digit == {"0", "1", "2", "3", "4", "5", "6", "7", "8", "9"}

DigitValue(c) ==
  CASE c = "0" -> 0 [] c = "1" -> 1 [] c = "2" -> 2 [] c = "3" -> 3 [] c = "4" -> 4
    [] c = "5" -> 5 [] c = "6" -> 6 [] c = "7" -> 7 [] c = "8" -> 8 [] c = "9" -> 9

DigitChar(d) == <<"0", "1", "2", "3", "4", "5", "6", "7", "8", "9">>[d + 1]

RECURSIVE Pow10(_)
Pow10(k) == IF k = 0 THEN 1 ELSE 10 * Pow10(k - 1)

\* the index of the first character of s that is in C, 0 when there is none
IndexOf(s, C) ==
  IF \E i \in DOMAIN s : s[i] \in C
  THEN CHOOSE i \in DOMAIN s : s[i] \in C /\ \A k \in 1..(i - 1) : s[k] \notin C
  ELSE 0

AllDigits(s) == \A i \in DOMAIN s : s[i] \in Digit

RECURSIVE DigitsValue(_)
DigitsValue(s) ==
  IF s = <<>> THEN 0
  ELSE 10 * DigitsValue(SubSeq(s, 1, Len(s) - 1)) + DigitValue(s[Len(s)])

RECURSIVE DigitsOf(_)
\* the decimal digits of a natural number
DigitsOf(n) == IF n < 10 THEN <<DigitChar(n)>> ELSE Append(DigitsOf(n \div 10), DigitChar(n % 10))

Unsigned(s) == IF s # <<>> /\ s[1] \in {"+", "-"} THEN Tail(s) ELSE s
Negative(s) == s # <<>> /\ s[1] = "-"

\* the parts of a decimal literal: sign, integer digits, the characters after
\* the first '.', and the exponent after the first 'e' or 'E'
Literal(s) ==
  LET ePos == IndexOf(s, {"e", "E"})
      mant == IF ePos = 0 THEN s ELSE SubSeq(s, 1, ePos - 1)
      expo == IF ePos = 0 THEN <<>> ELSE SubSeq(s, ePos + 1, Len(s))
      body == Unsigned(mant)
      dot == IndexOf(body, {"."})
  IN [negative |-> Negative(mant),
      int |-> IF dot = 0 THEN body ELSE SubSeq(body, 1, dot - 1),
      frac |-> IF dot = 0 THEN <<>> ELSE SubSeq(body, dot + 1, Len(body)),
      hasExp |-> ePos # 0,
      expNegative |-> Negative(expo),
      expDigits |-> Unsigned(expo)]

\* the pattern of validator's isFloat, which is also the decimal part of the
\* grammar of Number(string):
\* ^[-+]?[0-9]*(\.[0-9]*)?([eE][+-]?[0-9]+)?$
MatchesFloat(s) ==
  LET l == Literal(s) IN
  /\ AllDigits(l.int)
  /\ AllDigits(l.frac)
  /\ l.hasExp => (l.expDigits # <<>> /\ AllDigits(l.expDigits))

NaN == [nan |-> TRUE, m |-> 0, e |-> 0]

\* Number(s) / parseFloat(s) of a text: NaN, or the value m * 10^e
ToNumber(s) ==
  LET l == Literal(s) IN
  IF MatchesFloat(s) /\ (l.int # <<>> \/ l.frac # <<>>)
  THEN [nan |-> FALSE,
        m |-> (IF l.negative THEN -1 ELSE 1) * DigitsValue(l.int \o l.frac),
        e |-> (IF l.expNegative THEN -1 ELSE 1) * DigitsValue(l.expDigits) - Len(l.frac)]
  ELSE NaN

\* floor and ceiling of v * 10^k
FloorScaled(v, k) ==
  IF v.e + k >= 0 THEN v.m * Pow10(v.e + k)
  ELSE LET d == Pow10(0 - (v.e + k)) IN
       IF v.m >= 0 THEN v.m \div d ELSE 0 - ((0 - v.m + d - 1) \div d)

CeilScaled(v, k) ==
  IF v.e + k >= 0 THEN v.m * Pow10(v.e + k)
  ELSE 0 - FloorScaled([v EXCEPT !.m = 0 - v.m], k)

\* body('amount').isFloat({min: 0.01, max: 1000000})
IsFloatInRange(s) ==
  /\ s \notin {<<>>, <<".">>, <<"-">>, <<"+">>}
  /\ MatchesFloat(s)
  /\ LET v == ToNumber(s) IN
     /\ ~ v.nan
     /\ FloorScaled(v, 2) >= MinAmount
     /\ CeilScaled(v, 2) <= MaxAmount

\* value.toString().split('.')[1]: the text between the first and the second
\* '.', empty when there is no '.'
DecimalPart(s) ==
  LET d1 == IndexOf(s, {"."})
      rest == SubSeq(s, d1 + 1, Len(s))
      d2 == IndexOf(rest, {"."})
  IN IF d1 = 0 THEN <<>>
     ELSE IF d2 = 0 THEN rest ELSE SubSeq(rest, 1, d2 - 1)

\* validationResult(req) holds an error for the amount
AmountErrors(s) ==
  \/ ~ IsFloatInRange(s)
  \/ Len(DecimalPart(s)) > MaxDecimals

\* the setter Math.round(x * 100) / 100 applied to x = cur + sign * v, with
\* cur in cents and v = m * 10^e: whole cents, halves rounded up
RoundedSum(cur, sign, v) ==
  IF v.e + 2 >= 0 THEN cur + sign * v.m * Pow10(v.e + 2)
  ELSE LET d == Pow10(0 - (v.e + 2)) IN
       (2 * (cur * d + sign * v.m) + d) \div (2 * d)

\* credit < amount, with the credit in cents and the amount v = m * 10^e
CreditBelow(cur, v) ==
  IF v.e + 2 >= 0 THEN cur < v.m * Pow10(v.e + 2)
  ELSE cur * Pow10(0 - (v.e + 2)) < v.m

\* Number.prototype.toString of a balance: a value >= 0 of at most two
\* decimals, written without trailing zeros
NumToText(cents) ==
  LET int == DigitsOf(cents \div 100)
      f == cents % 100
  IN IF f = 0 THEN int
     ELSE IF f % 10 = 0 THEN int \o <<".", DigitChar(f \div 10)>>
     ELSE int \o <<".", DigitChar(f \div 10), DigitChar(f % 10)>>

\* this.credit += amount through the credit setter: a sum of numbers when
\* the amount is a number, the concatenation of two texts when it is a
\* string; this.credit -= amount always subtracts numbers.  NaN when the
\* concatenation is no number.
NewCreditOf(cur, body) ==
  LET v == ToNumber(body.text) IN
  IF body.type = "deduct" THEN [nan |-> FALSE, credit |-> RoundedSum(cur, -1, v)]
  ELSE IF ~ body.isString THEN [nan |-> FALSE, credit |-> RoundedSum(cur, 1, v)]
  ELSE LET w == ToNumber(NumToText(cur) \o body.text) IN
       IF w.nan THEN [nan |-> TRUE, credit |-> cur]
       ELSE [nan |-> FALSE, credit |-> RoundedSum(0, 1, w)]

\* SavedCredit as a relative update of the stored value (an $inc of the
\* difference) instead of a $set of the in-memory value
SavedCreditByDelta(stored, loaded, inMemory) == stored + (inMemory - loaded)

\* document.save() of a User whose only changed path is credit: $set of the
\* in-memory value when it differs from the loaded one, no write otherwise
SavedCredit(stored, loaded, inMemory) ==
  IF inMemory # loaded THEN inMemory ELSE stored

\* NewTransaction with the account's parent recorded as its user
NewTransactionOfParent(u, amount, type, oldCredit, newCredit, storedOld, day) ==
  [user |-> Parent(u), amount |-> amount, type |-> type, oldCredit |-> oldCredit,
   newCredit |-> newCredit, storedOld |-> storedOld, createdAt |-> day]

\* new Transaction({user, amount, type, oldCredit, newCredit: this.credit}),
\* createdAt from the schema's timestamps.
\* storedOld is bookkeeping of the model: the stored balance right before the
\* balance write of the same call
NewTransaction(u, amount, type, oldCredit, newCredit, storedOld, day) ==
  [user |-> u, amount |-> amount, type |-> type, oldCredit |-> oldCredit,
   newCredit |-> newCredit, storedOld |-> storedOld, createdAt |-> day]

\* a fresh AgentStats document (AgentStats.js:3-28 defaults)
NewStats ==
  [exists |-> TRUE, totalMembers |-> 0, activeMembers |-> 0, totalCredit |-> 0,
   commissionRate |-> DefaultRate, totalCommission |-> 0, commissionHistory |-> <<>>]

NoStats == [NewStats EXCEPT !.exists = FALSE]

\* StatsFound without the test for a missing record
StatsFoundAlways(a) == TRUE

\* AgentStats.findOne({agent}) finds a document
StatsFound(a) == stats[a].exists

\* User.countDocuments({parent, role: 'member'})
MemberCount(a) == Cardinality({m \in Members : Parent(m) = a})

\* a count of active members that leaves out the balance filter
ActiveMemberCountAll(a) == Cardinality({m \in Members : Parent(m) = a})

\* User.countDocuments({parent, role: 'member', credit: {$gt: 0}})
ActiveMemberCount(a) == Cardinality({m \in Members : Parent(m) = a /\ credit[m] > 0})

RECURSIVE SumCredit(_)
SumCredit(S) ==
  IF S = {} THEN 0
  ELSE LET m == CHOOSE x \in S : TRUE IN credit[m] + SumCredit(S \ {m})

\* User.aggregate([{$match: {parent, role}}, {$group: {total: {$sum: '$credit'}}}])
TotalCredit(a) == SumCredit({m \in Members : Parent(m) = a})

\* ------------------------------------------------------------------- state

\* no DailyReport stored for a date (DailyReport schema defaults, User.js:87-109)
NoReport ==
  [exists |-> FALSE, totalMembers |-> 0, activeMembers |-> 0,
   totalCreditMovement |-> 0, totalCommission |-> 0, agentReports |-> <<>>]

\* the cron job between two runs
JobIdle ==
  [pc |-> "idle", day |-> 0, txs |-> <<>>, todo |-> <<>>, agentReports |-> <<>>,
   totalCreditMovement |-> 0, commission |-> 0, totalMembers |-> 0,
   activeMembers |-> 0]

Idle ==
  [pc |-> "idle", user |-> None, amount |-> 0, type |-> None,
   oldCredit |-> 0, newCredit |-> 0, storedOld |-> 0,
   agent |-> None, loaded |-> <<0, 0, 0>>, counted |-> <<0, 0, 0>>,
   commission |-> 0, agentCredit |-> 0, loadedTotal |-> 0, createdAt |-> 0]

\* no request has come in
NoIntake == [seq |-> 0, id |-> None, text |-> <<>>, isString |-> FALSE, type |-> None, answer |-> None]

\* no report query has been made
NoQuery ==
  [kind |-> None, failed |-> FALSE,
   from |-> [day |-> 0, time |-> "00:00:00.000"],
   to |-> [day |-> 0, time |-> "00:00:00.000"],
   result |-> <<>>]

\* the identifiers of the accounts that get registered while the system runs
NewIds == {"n1", "n2"}

\* an identifier no account is stored under yet
NoAccount ==
  [state |-> "absent", stored |-> FALSE, role |-> None, parent |-> None,
   clash |-> FALSE, statsRecords |-> 0]

\* The store after the accounts were registered: every credit is the schema
\* default 0 (User.js:24), no transaction exists.  a1 got its AgentStats at
\* registration (agentRoutes.js:70); a2 is an agent whose registration ended
\* between the save of the account and the save of its AgentStats
\* (authRoutes.js:80-85), so it has none.
Fresh ==
  /\ credit = [u \in Users |-> InitialCredit]
  /\ transactions = <<>>
  /\ stats = [u \in Users |-> IF u = "a1" THEN NewStats ELSE NoStats]
  /\ req = [h \in Handlers |-> Idle]
  /\ ops = 0
  /\ netOK = [u \in Users |-> 0]
  /\ ret = [h \in Handlers |-> 0]
  /\ today = 1
  /\ reports = [d \in Days |-> NoReport]
  /\ job = [j \in Jobs |-> JobIdle]
  /\ intake = NoIntake
  /\ accounts = [n \in NewIds |-> NoAccount]
  /\ query = NoQuery

\* The store after one credit addition of 40.00 to m1 has run alone from
\* Fresh to its response: m1 holds 40.00 and its transaction, the follow-ups
\* have recomputed a1's rollup and credited a1 the commission
\* 40.00 * 0.01 * 0.05 = 0.02.
AfterFirstAdd ==
  /\ credit = [u \in Users |-> IF u = "m1" THEN 4000 ELSE IF u = "a1" THEN 2 ELSE 0]
  /\ transactions = << NewTransaction("m1", 4000, "add", 0, 4000, 0, 1) >>
  /\ stats = [u \in Users |->
               IF u = "a1"
               THEN [NewStats EXCEPT !.totalMembers = 2, !.activeMembers = 1,
                                     !.totalCredit = 4000, !.totalCommission = 2 * Scale,
                                     !.commissionHistory = <<2>>]
               ELSE NoStats]
  /\ req = [h \in Handlers |-> Idle]
  /\ ops = 0
  /\ netOK = [u \in Users |-> IF u = "m1" THEN 4000 ELSE 0]
  /\ ret = [h \in Handlers |-> IF h = "h1" THEN 20000 ELSE 0]
  /\ today = 1
  /\ reports = [d \in Days |-> NoReport]
  /\ job = [j \in Jobs |-> JobIdle]
  /\ intake = NoIntake
  /\ accounts = [n \in NewIds |-> NoAccount]
  /\ query = NoQuery

Init == Fresh \/ AfterFirstAdd

\* ------------------------------------------- PUT /:id/credit, step by step

Net(amount, type) == IF type = "add" THEN amount ELSE 0 - amount

\* res.json({success: true, ...}): the adjust call reports success
Respond(h) ==
  /\ netOK' = [netOK EXCEPT ![req[h].user] = @ + Net(req[h].amount, req[h].type)]
  /\ req' = [req EXCEPT ![h] = Idle]

\* follow-ups for any type of adjustment
HasFollowUpsAnyType(u, type) == Parent(u) # None

\* if (member.parent && type === 'add')
HasFollowUps(u, type) == Parent(u) # None /\ type = "add"

\* the request handlers are interchangeable: a request is served by h1 unless
\* h1 is busy
FreeHandler(h) == h = "h1" \/ req["h1"].pc # "idle"

\* the handler's locals when it enters a follow-up at position pc: the
\* request's account, amount and type, and the agent the follow-ups are for
FollowUp(r, pc) ==
  [Idle EXCEPT !.pc = pc, !.user = r.user, !.amount = r.amount, !.type = r.type,
               !.agent = Parent(r.user)]

\* the process still accepts requests: its HTTP server has not been closed
\* by the unhandledRejection handler (server.js:93-98)
Serving == job["p1"].pc # "exited"

\* User.findById, the insufficient-credit checks of the route and of
\* updateCredit, and updateCredit's change of the in-memory credit
AdjustFind(h, u, amount, type) ==
  /\ req[h].pc = "idle"
  /\ Serving
  /\ FreeHandler(h)
  /\ ops' = ops + 1
  /\ IF type = "deduct" /\ InsufficientCredit(credit[u], amount)
     THEN UNCHANGED req
     ELSE req' = [req EXCEPT ![h] =
            [Idle EXCEPT !.pc = "saveCredit", !.user = u, !.amount = amount,
                         !.type = type, !.oldCredit = credit[u],
                         !.newCredit = NewCredit(credit[u], amount, type)]]
  /\ UNCHANGED <<credit, transactions, stats, netOK, ret, today, reports, job, intake, accounts, query>>

\* what the route answers before any store write
InvalidAmount == "400 errors[]"
AccountNotFound == "404 Member not found"
InsufficientAnswer == "400 Insufficient credit"
InternalError == "500 Server error"
Accepted == "accepted"

\* PUT /:id/credit as it comes in: the validation chain, User.findById, the
\* insufficient-credit checks of the route and of updateCredit, updateCredit's
\* change of the in-memory credit and the document validation of this.save().
\* The caller is the superadmin.
Intake(h, id, body) ==
  LET v == ToNumber(body.text)
      new == NewCreditOf(credit[id], body)
      answer ==
        IF AmountErrors(body.text) THEN InvalidAmount
        ELSE IF id \notin Users THEN AccountNotFound
        ELSE IF body.type = "deduct" /\ CreditBelow(credit[id], v) THEN InsufficientAnswer
        ELSE IF new.nan THEN InternalError
        ELSE Accepted
  IN
  /\ req[h].pc = "idle"
  /\ Serving
  /\ FreeHandler(h)
  /\ ops' = ops + 1
  /\ intake' = [seq |-> ops + 1, id |-> id, text |-> body.text,
                isString |-> body.isString, type |-> body.type, answer |-> answer]
  /\ IF answer = Accepted
     THEN req' = [req EXCEPT ![h] =
            [Idle EXCEPT !.pc = "saveCredit", !.user = id,
                         !.amount = RoundedSum(0, 1, v), !.type = body.type,
                         !.oldCredit = credit[id], !.newCredit = new.credit]]
     ELSE UNCHANGED req
  /\ UNCHANGED <<credit, transactions, stats, netOK, ret, today, reports, job, accounts, query>>

\* await this.save(); then new Transaction({...}) and the call of
\* transaction.save(), whose pre-save hook stamps createdAt (timestamps: true)
\* with the time of the call, before the insert is sent
SaveCredit(h) ==
  /\ req[h].pc = "saveCredit"
  /\ credit' = [credit EXCEPT ![req[h].user] =
                  SavedCredit(@, req[h].oldCredit, req[h].newCredit)]
  /\ req' = [req EXCEPT ![h].pc = "saveTx", ![h].storedOld = credit[req[h].user],
                        ![h].createdAt = today]
  /\ UNCHANGED <<transactions, stats, ops, netOK, ret, today, reports, job, intake, accounts, query>>

\* await transaction.save(), then the route's choice of follow-ups
SaveTransaction(h) ==
  /\ req[h].pc = "saveTx"
  /\ transactions' = Append(transactions,
        NewTransaction(req[h].user, req[h].amount, req[h].type,
                       req[h].oldCredit, req[h].newCredit, req[h].storedOld, req[h].createdAt))
  /\ IF HasFollowUps(req[h].user, req[h].type)
     THEN /\ req' = [req EXCEPT ![h] = FollowUp(req[h], "statsFind")]
          /\ UNCHANGED netOK
     ELSE Respond(h)
  /\ UNCHANGED <<credit, stats, ops, ret, today, reports, job, intake, accounts, query>>

\* ------------------------------------------------ updateAgentStats(agentId)

\* const agentStats = await AgentStats.findOne({agent}); if (!agentStats) return
StatsFind(h) ==
  /\ req[h].pc = "statsFind"
  /\ IF StatsFound(req[h].agent)
     THEN LET s == stats[req[h].agent] IN
          req' = [req EXCEPT ![h].pc = "statsCount",
                    ![h].loaded = <<s.totalMembers, s.activeMembers, s.totalCredit>>]
     ELSE req' = [req EXCEPT ![h] = FollowUp(req[h], "commFind")]
  /\ UNCHANGED <<credit, transactions, stats, ops, netOK, ret, today, reports, job, intake, accounts, query>>

StatsCount(h) ==
  /\ req[h].pc = "statsCount"
  /\ req' = [req EXCEPT ![h].pc = "statsActive",
                ![h].counted[1] = MemberCount(req[h].agent)]
  /\ UNCHANGED <<credit, transactions, stats, ops, netOK, ret, today, reports, job, intake, accounts, query>>

StatsActive(h) ==
  /\ req[h].pc = "statsActive"
  /\ req' = [req EXCEPT ![h].pc = "statsSum",
                ![h].counted[2] = ActiveMemberCount(req[h].agent)]
  /\ UNCHANGED <<credit, transactions, stats, ops, netOK, ret, today, reports, job, intake, accounts, query>>

StatsSum(h) ==
  /\ req[h].pc = "statsSum"
  /\ req' = [req EXCEPT ![h].pc = "statsSave",
                ![h].counted[3] = TotalCredit(req[h].agent)]
  /\ UNCHANGED <<credit, transactions, stats, ops, netOK, ret, today, reports, job, intake, accounts, query>>

\* a path is written by save() only when its in-memory value was changed
SavedPath(stored, loaded, inMemory) ==
  IF inMemory # loaded THEN inMemory ELSE stored

\* a save that adds the counted values to the stored rollup
SavedStatsAccumulate(s, loaded, counted) ==
  [s EXCEPT !.totalMembers = @ + counted[1],
            !.activeMembers = @ + counted[2],
            !.totalCredit = @ + counted[3]]

\* a save that replaces the stored document by a new one holding the rollup
SavedStatsReplace(s, loaded, counted) ==
  [NewStats EXCEPT !.totalMembers = counted[1],
                   !.activeMembers = counted[2],
                   !.totalCredit = counted[3]]

\* await agentStats.save() of updateAgentStats
SavedStats(s, loaded, counted) ==
  [s EXCEPT !.totalMembers = SavedPath(@, loaded[1], counted[1]),
            !.activeMembers = SavedPath(@, loaded[2], counted[2]),
            !.totalCredit = SavedPath(@, loaded[3], counted[3])]

StatsSave(h) ==
  /\ req[h].pc = "statsSave"
  /\ stats' = [stats EXCEPT ![req[h].agent] =
                 SavedStats(@, req[h].loaded, req[h].counted)]
  /\ req' = [req EXCEPT ![h] = FollowUp(req[h], "commFind")]
  /\ UNCHANGED <<credit, transactions, ops, netOK, ret, today, reports, job, intake, accounts, query>>

\* ------------------------------------- calculateCommission(agentId, betAmount)

\* updateAgentStats(a) run from its first read to its save with no other
\* operation in between, applied to the stored record s of agent a
RecomputeAlone(s, a) ==
  IF s.exists
  THEN SavedStats(s, <<s.totalMembers, s.activeMembers, s.totalCredit>>,
                  <<MemberCount(a), ActiveMemberCount(a), TotalCredit(a)>>)
  ELSE s

\* calculateCommission returns v; the route then responds with success
ReturnCommission(h, v) ==
  /\ ret' = [ret EXCEPT ![h] = v]
  /\ Respond(h)

\* AgentStats.findOne({agent}); a missing record returns 0
CommFind(h) ==
  /\ req[h].pc = "commFind"
  /\ IF StatsFound(req[h].agent)
     THEN /\ req' = [req EXCEPT ![h].pc = "commPopulate",
                        ![h].loadedTotal = stats[req[h].agent].totalCommission,
                        ![h].commission =
                           Commission(req[h].amount, stats[req[h].agent].commissionRate)]
          /\ UNCHANGED <<netOK, ret>>
     ELSE ReturnCommission(h, 0)
  /\ UNCHANGED <<credit, transactions, stats, ops, today, reports, job, intake, accounts, query>>

\* .populate('agent'), the commission <= 0 test, agent.credit += commission
CommPopulate(h) ==
  /\ req[h].pc = "commPopulate"
  /\ IF CommissionSkipped(req[h].commission)
     THEN ReturnCommission(h, 0)
     ELSE /\ req' = [req EXCEPT ![h].pc = "commSaveAgent",
                        ![h].agentCredit = credit[req[h].agent]]
          /\ UNCHANGED <<netOK, ret>>
  /\ UNCHANGED <<credit, transactions, stats, ops, today, reports, job, intake, accounts, query>>

\* agent.credit += commission, through the credit setter
CreditedAgent(loaded, commission) == Round2(loaded * Scale + commission)

\* await agent.save()
CommSaveAgent(h) ==
  /\ req[h].pc = "commSaveAgent"
  /\ credit' = [credit EXCEPT ![req[h].agent] =
        SavedCredit(@, req[h].agentCredit,
                    CreditedAgent(req[h].agentCredit, req[h].commission))]
  /\ req' = [req EXCEPT ![h].pc = "commSaveStats"]
  /\ UNCHANGED <<transactions, stats, ops, netOK, ret, today, reports, job, intake, accounts, query>>

\* a save of the commission that stores the unrounded product
CommissionSavedRaw(s, loadedTotal, commission) ==
  [s EXCEPT !.totalCommission = loadedTotal + commission,
            !.commissionHistory = Append(@, Round2(commission))]

\* agentStats.totalCommission += commission; commissionHistory.push({amount});
\* await agentStats.save(): $set of the changed total, $push of the entry
CommissionSaved(s, loadedTotal, commission) ==
  [s EXCEPT !.totalCommission =
              SavedPath(@, loadedTotal, Round2(loadedTotal + commission) * Scale),
            !.commissionHistory = Append(@, Round2(commission))]

CommSaveStats(h) ==
  /\ req[h].pc = "commSaveStats"
  /\ stats' = [stats EXCEPT ![req[h].agent] =
                 CommissionSaved(@, req[h].loadedTotal, req[h].commission)]
  /\ ReturnCommission(h, req[h].commission)
  /\ UNCHANGED <<credit, transactions, ops, today, reports, job, intake, accounts, query>>

\* ------------------------------------- the daily cron job (reportService.js)

\* an _id as the store returns it, and the string t.user.toString() gives
ObjectId(u) == <<"ObjectId", u>>
IdString(oid) == <<"String", oid[2]>>

\* a membership test that compares the ids by value, whatever their type
IncludesById(array, value) == \E x \in array : x[2] = value[2]

\* Array.prototype.includes: SameValueZero against every element
Includes(array, value) == \E x \in array : x = value

RECURSIVE SumAmounts(_)
\* transactions.reduce((sum, t) => sum + t.amount, 0)
SumAmounts(txs) ==
  IF txs = <<>> THEN 0 ELSE Head(txs).amount + SumAmounts(Tail(txs))

RECURSIVE SumCommission(_)
\* agentReports.reduce((sum, r) => sum + r.commission, 0), in 1/Scale cents
SumCommission(rs) ==
  IF rs = <<>> THEN 0 ELSE Head(rs).commission + SumCommission(Tail(rs))

\* User.find({role: 'agent'}), in insertion order
AgentList == <<"a1", "a2">>

\* Transaction.find({createdAt: {$gte: yesterday, $lt: today}})
InWindow(t, day) == t.createdAt >= day /\ t.createdAt < day + 1

\* User.find({parent: agent._id, role: 'member'}).distinct('_id')
MemberIds(a) == {ObjectId(m) : m \in {x \in Members : Parent(x) = a}}

\* creditMovement * 0.01, in 1/Scale cents
ReportCommission(creditMovement) == creditMovement * ReportPercent * (Scale \div 100)

\* the agentReports element of one agent: the window's transactions whose
\* user string is among the member ids, their summed amounts, 1% of the sum
AgentReport(a, txs) ==
  LET ids == MemberIds(a)
      memberTransactions == SelectSeq(txs, LAMBDA t : Includes(ids, IdString(ObjectId(t.user))))
      creditMovement == SumAmounts(memberTransactions)
  IN [agent |-> a, members |-> Cardinality(ids), creditMovement |-> creditMovement,
      commission |-> ReportCommission(creditMovement)]

\* AgentStats.findOneAndUpdate({agent}, {$inc: {totalCommission}}, {upsert: true}):
\* a raw $inc, or the insert of a record with the schema defaults.  (A build
\* whose upsert leaves commissionRate unset makes calculateCommission's
\* agent.save() throw on the resulting NaN credit: the StoreFault step at
\* "commSaveAgent".)
UpsertedStats(s, commission) ==
  IF s.exists THEN [s EXCEPT !.totalCommission = @ + commission]
  ELSE [NewStats EXCEPT !.totalCommission = commission]

\* the stored DailyReport when the update adds its totals to the stored ones
StoredReportAdded(j) ==
  [exists |-> TRUE, totalMembers |-> j.totalMembers, activeMembers |-> j.activeMembers,
   totalCreditMovement |-> reports[j.day].totalCreditMovement
                             + Round2(j.totalCreditMovement * Scale),
   totalCommission |-> reports[j.day].totalCommission
                         + Round2(SumCommission(j.agentReports)),
   agentReports |-> reports[j.day].agentReports \o j.agentReports]

\* the stored DailyReport: the update is cast through the schema setters
StoredReport(j) ==
  [exists |-> TRUE, totalMembers |-> j.totalMembers, activeMembers |-> j.activeMembers,
   totalCreditMovement |-> Round2(j.totalCreditMovement * Scale),
   totalCommission |-> Round2(SumCommission(j.agentReports)),
   agentReports |-> [i \in DOMAIN j.agentReports |->
                       [j.agentReports[i] EXCEPT !.commission = Round2(@)]]]

\* the process has exited
JobExited == [JobIdle EXCEPT !.pc = "exited"]

\* midnight: the cron expression '0 0 * * *' fires, in every running process
\* of J, the job for the day that has just ended; a run ends before the next
\* midnight
DayChangeUpTo(J, last) ==
  /\ \A j \in J : job[j].pc \in {"idle", "exited"}
  /\ today < last
  /\ today' = today + 1
  /\ job' = [j \in Jobs |->
               IF j \in J /\ job[j].pc = "idle"
               THEN [JobIdle EXCEPT !.pc = "findTransactions", !.day = today]
               ELSE job[j]]
  /\ UNCHANGED <<credit, transactions, stats, req, ops, netOK, ret, reports, intake, accounts, query>>

DayChangeFor(J) == DayChangeUpTo(J, MaxDay)

\* await Transaction.find(window)
JobFindTransactions(j) ==
  /\ job[j].pc = "findTransactions"
  /\ job' = [job EXCEPT ![j].pc = "findAgents",
               ![j].txs = SelectSeq(transactions, LAMBDA t : InWindow(t, job[j].day))]
  /\ UNCHANGED <<credit, transactions, stats, req, ops, netOK, ret, today, reports, intake, accounts, query>>

\* await User.find({role: 'agent'}), then totalCreditMovement
JobFindAgents(j) ==
  /\ job[j].pc = "findAgents"
  /\ job' = [job EXCEPT ![j].pc = IF AgentList = <<>> THEN "countMembers" ELSE "findMembers",
               ![j].todo = AgentList,
               ![j].totalCreditMovement = SumAmounts(job[j].txs)]
  /\ UNCHANGED <<credit, transactions, stats, req, ops, netOK, ret, today, reports, intake, accounts, query>>

\* await User.find(members).distinct('_id'), then the agent's sub-report
JobFindMembers(j) ==
  /\ job[j].pc = "findMembers"
  /\ LET r == AgentReport(Head(job[j].todo), job[j].txs) IN
     job' = [job EXCEPT ![j].pc = "upsertStats",
               ![j].agentReports = Append(@, r),
               ![j].commission = r.commission]
  /\ UNCHANGED <<credit, transactions, stats, req, ops, netOK, ret, today, reports, intake, accounts, query>>

\* await AgentStats.findOneAndUpdate(...), then the next agent
JobUpsertStats(j) ==
  /\ job[j].pc = "upsertStats"
  /\ stats' = [stats EXCEPT ![Head(job[j].todo)] = UpsertedStats(@, job[j].commission)]
  /\ job' = [job EXCEPT ![j].pc = IF Tail(job[j].todo) = <<>> THEN "countMembers" ELSE "findMembers",
               ![j].todo = Tail(@),
               ![j].commission = 0]
  /\ UNCHANGED <<credit, transactions, req, ops, netOK, ret, today, reports, intake, accounts, query>>

\* await User.countDocuments({role: 'member'})
JobCountMembers(j) ==
  /\ job[j].pc = "countMembers"
  /\ job' = [job EXCEPT ![j].pc = "countActive", ![j].totalMembers = Cardinality(Members)]
  /\ UNCHANGED <<credit, transactions, stats, req, ops, netOK, ret, today, reports, intake, accounts, query>>

\* await User.countDocuments({role: 'member', credit: {$gt: 0}})
JobCountActive(j) ==
  /\ job[j].pc = "countActive"
  /\ job' = [job EXCEPT ![j].pc = "upsertReport",
               ![j].activeMembers = Cardinality({m \in Members : credit[m] > 0})]
  /\ UNCHANGED <<credit, transactions, stats, req, ops, netOK, ret, today, reports, intake, accounts, query>>

\* await DailyReport.findOneAndUpdate({date: yesterday}, {...}, {upsert: true})
JobUpsertReport(j) ==
  /\ job[j].pc = "upsertReport"
  /\ reports' = [reports EXCEPT ![job[j].day] = StoredReport(job[j])]
  /\ job' = [job EXCEPT ![j] = JobIdle]
  /\ UNCHANGED <<credit, transactions, stats, req, ops, netOK, ret, today, intake, accounts, query>>

JobStep(j) ==
  \/ JobFindTransactions(j)
  \/ JobFindAgents(j)
  \/ JobFindMembers(j)
  \/ JobUpsertStats(j)
  \/ JobCountMembers(j)
  \/ JobCountActive(j)
  \/ JobUpsertReport(j)

\* the store operation the job is waiting for throws: the catch logs and
\* rethrows (reportService.js:74-77), which rejects the promise of the cron
\* callback.  What follows depends on the scheduler library of the build:
\*  - it handles the rejected promise: the run is over, the process goes on
\*  - it does not: the rejection is unhandled, the handler at
\*    server.js:93-98 closes the HTTP server and exits the process
JobFault(j) ==
  /\ job[j].pc \notin {"idle", "exited"}
  /\ \/ job' = [job EXCEPT ![j] = JobIdle]
     \/ job' = [job EXCEPT ![j] = JobExited]
  /\ UNCHANGED <<credit, transactions, stats, req, ops, netOK, ret, today, reports, intake, accounts, query>>

\* ------------------- registration (authRoutes.js:37-111, agentRoutes.js:27-95)
\* accounts[n] is the account registered under the new identifier n: state is
\* the position of its registration request, stored says whether the User
\* document is in the store, statsRecords counts its AgentStats documents.
\* An agent's code is written as the agent's identifier.

\* role and parent of any account, registered before or while the system runs
RoleOf(x) == IF x \in NewIds THEN accounts[x].role ELSE IF x \in Users THEN Role(x) ELSE None

ParentOf(x) == IF x \in NewIds THEN accounts[x].parent ELSE IF x \in Users THEN Parent(x) ELSE None

IsStored(x) == IF x \in NewIds THEN accounts[x].stored ELSE x \in Users

\* the values of 'role' and 'agentCode' a registration body may carry
BodyRoles == {None, "superadmin", "agent", "member"}

BodyCodes == {None, "a1", "n1", "zz"}

\* User.findOne({ agentCode, role: 'agent' })
FindAgentByCode(code) == IF IsStored(code) /\ RoleOf(code) = "agent" THEN code ELSE None

RegistrationFrame ==
  UNCHANGED <<credit, transactions, stats, req, ops, netOK, ret, today, reports, job, intake,
              query>>

\* POST /api/auth/register up to the construction of the document: the agent
\* code, when given, must be that of a stored agent, which becomes the
\* parent; the role is the one asked for, else member below a parent and
\* superadmin without.  A new agent that was given a code carries the code of
\* the agent just found, which the unique index on agentCode refuses.
AuthRegister(n, role, code) ==
  LET agent == FindAgentByCode(code)
      parent == IF code # None THEN agent ELSE None
  IN /\ accounts[n].state = "absent"
     /\ accounts' = [accounts EXCEPT ![n] =
          IF code # None /\ agent = None
          THEN [@ EXCEPT !.state = "over"]
          ELSE [@ EXCEPT !.state = "userSave",
                         !.role = IF role # None THEN role
                                  ELSE IF parent # None THEN "member" ELSE "superadmin",
                         !.parent = parent,
                         !.clash = (role = "agent" /\ code # None)]]
     /\ RegistrationFrame

\* POST /api/agents/register by the account caller: superadmin only; the new
\* agent's parent is the caller.
AgentRegister(n, caller) ==
  /\ accounts[n].state = "absent"
  /\ IsStored(caller)
  /\ caller \in NewIds => accounts[caller].state = "over"
  /\ accounts' = [accounts EXCEPT ![n] =
       IF RoleOf(caller) # "superadmin"
       THEN [@ EXCEPT !.state = "over"]
       ELSE [@ EXCEPT !.state = "userSave", !.role = "agent", !.parent = caller]]
  /\ RegistrationFrame

\* await newUser.save() / await newAgent.save()
RegisterSaveUser(n) ==
  /\ accounts[n].state = "userSave"
  /\ accounts' = [accounts EXCEPT ![n] =
       IF accounts[n].clash THEN [@ EXCEPT !.state = "over"]
       ELSE [@ EXCEPT !.stored = TRUE,
                      !.state = IF accounts[n].role = "agent" THEN "statsSave" ELSE "over"]]
  /\ RegistrationFrame

\* await new AgentStats({ agent: newUser._id }).save(); the unique index on
\* agent refuses a second record
RegisterSaveStats(n) ==
  /\ accounts[n].state = "statsSave"
  /\ accounts' = [accounts EXCEPT ![n] =
       [@ EXCEPT !.state = "over",
                 !.statsRecords = IF @ = 0 THEN 1 ELSE @]]
  /\ RegistrationFrame

\* a save of the registration rejects: the catch answers 500, what was
\* stored stays
RegisterFault(n) ==
  /\ accounts[n].state \in {"userSave", "statsSave"}
  /\ accounts' = [accounts EXCEPT ![n].state = "over"]
  /\ RegistrationFrame

\* the daily job's AgentStats.findOneAndUpdate({ agent }, { $inc }, { upsert:
\* true }) for a stored agent: inserts the record when there is none
UpsertNewAgentStats(n) ==
  /\ accounts[n].stored /\ accounts[n].role = "agent"
  /\ accounts' = [accounts EXCEPT ![n].statsRecords = IF @ = 0 THEN 1 ELSE @]
  /\ RegistrationFrame

\* ------------------------- report queries (reportService.js:80-116, 118-169)
\* A point in time is a day and a time of day.  The daily job dates its report
\* at 00:00:00.000 of the day it reports (reportService.js:11-13, 59-60).
TimesOfDay == <<"00:00:00.000", "12:00:00.000", "23:59:59.999">>

Rank(t) == CHOOSE i \in DOMAIN TimesOfDay : TimesOfDay[i] = t

At(day, time) == [day |-> day, time |-> time]

NotAfter(s, t) == s.day < t.day \/ (s.day = t.day /\ Rank(s.time) <= Rank(t.time))

ReportDate(d) == At(d, "00:00:00.000")

\* the start date taken as given
StartOfDayKept(t) == t

\* start.setHours(0, 0, 0, 0)
StartOfDay(t) == [t EXCEPT !.time = "00:00:00.000"]

\* end.setHours(23, 59, 59, 999)
EndOfDay(t) == [t EXCEPT !.time = "23:59:59.999"]

\* .sort({ date: 1 })
RECURSIVE Ascending(_)
Ascending(S) ==
  IF S = {} THEN <<>>
  ELSE LET d == CHOOSE x \in S : \A y \in S : x <= y
       IN <<d>> \o Ascending(S \ {d})

\* the find without its lower bound on the date
ReportsUpTo(from, to) ==
  Ascending({d \in Days : reports[d].exists /\ NotAfter(ReportDate(d), to)})

\* DailyReport.find({ date: { $gte: from, $lte: to } }).sort({ date: 1 }),
\* as the days of the reports found
ReportsBetween(from, to) ==
  Ascending({d \in Days : /\ reports[d].exists
                          /\ NotAfter(from, ReportDate(d))
                          /\ NotAfter(ReportDate(d), to)})

Username(u) == <<"username of", u>>

\* agentMap, from User.find({ role: 'agent' }, 'username')
AgentMap == [a \in Agents |-> Username(a)]

\* agentMap[ar.agent.toString()] || 'Unknown Agent'
AgentNameOf(ar) == IF ar.agent \in DOMAIN AgentMap THEN AgentMap[ar.agent] ELSE "Unknown Agent"

\* one element of formattedReports
FormattedReport(d) ==
  [date |-> ReportDate(d),
   totalMembers |-> reports[d].totalMembers,
   activeMembers |-> reports[d].activeMembers,
   totalCreditMovement |-> reports[d].totalCreditMovement,
   totalCommission |-> reports[d].totalCommission,
   agentReports |-> [i \in DOMAIN reports[d].agentReports |->
                       LET ar == reports[d].agentReports[i]
                       IN [agent |-> ar.agent, members |-> ar.members,
                           creditMovement |-> ar.creditMovement,
                           commission |-> ar.commission,
                           agentName |-> AgentNameOf(ar)]]]

generateReport(startDate, endDate) ==
  LET found == ReportsBetween(StartOfDay(startDate), EndOfDay(endDate))
  IN [i \in DOMAIN found |-> FormattedReport(found[i])]

\* Days are counted from 1 January of the year asked for (day 1); the year
\* enters through the weekday of its 1 January (getDay(): 0 is Sunday).
\* new Date(year, 0, 1 + (weekNumber - 1) * 7), then
\* firstDay.setDate(firstDay.getDate() - firstDay.getDay() + 1)
WeekFirstDay(jan1, weekNumber) ==
  LET n == 1 + (weekNumber - 1) * 7
      getDay == (jan1 + n - 1) % 7
  IN n - getDay + 1

\* lastDay.setDate(lastDay.getDate() + 6)
WeekLastDay(jan1, weekNumber) == WeekFirstDay(jan1, weekNumber) + 6

RECURSIVE SumOver(_, _)
SumOver(days, field) ==
  IF days = <<>> THEN 0 ELSE reports[Head(days)][field] + SumOver(Tail(days), field)

\* Math.round(sum / n) for sum >= 0
RoundedAverage(sum, n) == (2 * sum + n) \div (2 * n)

\* what generateWeeklySummary returns for the reports found; summary is the
\* empty sequence for null and a one-element sequence otherwise (the
\* startDate and endDate strings of the result are left out)
WeeklySummaryOf(jan1, weekNumber, found) ==
  IF Len(found) = 0
  THEN [weekNumber |-> weekNumber, year |-> jan1, totalReports |-> 0, summary |-> <<>>]
  ELSE [weekNumber |-> weekNumber, year |-> jan1, totalReports |-> Len(found),
        summary |-> << [totalCreditMovement |-> Round2(SumOver(found, "totalCreditMovement") * Scale),
                        totalCommission |-> Round2(SumOver(found, "totalCommission") * Scale),
                        avgMembers |-> RoundedAverage(SumOver(found, "totalMembers"), Len(found)),
                        avgActiveMembers |-> RoundedAverage(SumOver(found, "activeMembers"), Len(found)),
                        dailyReports |-> [i \in DOMAIN found |->
                           [date |-> found[i],
                            totalCreditMovement |-> reports[found[i]].totalCreditMovement,
                            totalCommission |-> reports[found[i]].totalCommission,
                            totalMembers |-> reports[found[i]].totalMembers]]] >>]

generateWeeklySummary(jan1, weekNumber) ==
  WeeklySummaryOf(jan1, weekNumber,
                  ReportsBetween(ReportDate(WeekFirstDay(jan1, weekNumber)),
                                 ReportDate(WeekLastDay(jan1, weekNumber))))

QueryFrame ==
  UNCHANGED <<credit, transactions, stats, req, ops, netOK, ret, today, reports, job, intake,
              accounts>>

\* the arguments of the queries
QueryTimes == {At(d, t) : d \in Days, t \in {"00:00:00.000", "12:00:00.000"}}

Jan1Weekdays == 0..6

WeekNumbers == {1, 2}

\* a call of generateReport that returns
RangeReport(startDate, endDate) ==
  /\ query' = [kind |-> "range", failed |-> FALSE, from |-> startDate, to |-> endDate,
               result |-> generateReport(startDate, endDate)]
  /\ QueryFrame

\* a call of generateWeeklySummary that returns
WeeklySummary(jan1, weekNumber) ==
  /\ query' = [kind |-> "weekly", failed |-> FALSE,
               from |-> ReportDate(WeekFirstDay(jan1, weekNumber)),
               to |-> ReportDate(WeekLastDay(jan1, weekNumber)),
               result |-> << generateWeeklySummary(jan1, weekNumber) >>]
  /\ QueryFrame

\* a store call of a query rejects: the catch logs and rethrows
QueryFault(kind) ==
  /\ query' = [NoQuery EXCEPT !.kind = kind, !.failed = TRUE]
  /\ QueryFrame

\* ----------------------------------------------------------- store faults

LedgerSteps == {"saveCredit", "saveTx"}
StatsSteps == {"statsFind", "statsCount", "statsActive", "statsSum", "statsSave"}
CommSteps == {"commFind", "commPopulate", "commSaveAgent", "commSaveStats"}

\* a fault handling in which an error of a follow-up reaches the route's catch:
\* any fault ends the request with a 500
StoreFaultPropagates(h) ==
  /\ req[h].pc # "idle"
  /\ req' = [req EXCEPT ![h] = Idle]
  /\ UNCHANGED <<credit, transactions, stats, ops, netOK, ret, today, reports, job, intake, accounts, query>>

\* the store operation a handler is waiting for throws:
\*  - in updateCredit: the route's catch answers 500, no success is reported
\*  - in updateAgentStats: its catch logs, the route goes on to calculateCommission
\*  - in calculateCommission: its catch logs and returns 0, the route reports success
StoreFault(h) ==
  /\ \/ /\ req[h].pc \in LedgerSteps
        /\ req' = [req EXCEPT ![h] = Idle]
        /\ UNCHANGED <<netOK, ret>>
     \/ /\ req[h].pc \in StatsSteps
        /\ req' = [req EXCEPT ![h] = FollowUp(req[h], "commFind")]
        /\ UNCHANGED <<netOK, ret>>
     \/ /\ req[h].pc \in CommSteps
        /\ ReturnCommission(h, 0)
  /\ UNCHANGED <<credit, transactions, stats, ops, today, reports, job, intake, accounts, query>>

\* --------------------------------------------------------- specifications

\* the steps of handler h after the first read of its request
Proceed(h) ==
  \/ SaveCredit(h)
  \/ SaveTransaction(h)
  \/ StatsFind(h)
  \/ StatsCount(h)
  \/ StatsActive(h)
  \/ StatsSum(h)
  \/ StatsSave(h)
  \/ CommFind(h)
  \/ CommPopulate(h)
  \/ CommSaveAgent(h)
  \/ CommSaveStats(h)

\* the steps of handler h, while at most limit requests are started
StepWithin(h, limit) ==
  \/ /\ ops < limit
     /\ \E u \in Targets, r \in Requests : AdjustFind(h, u, r[1], r[2])
  \/ Proceed(h)

Step(h) == StepWithin(h, MaxOps)

\* the request handlers over a store whose operations may throw
Next == \E h \in Handlers : Step(h) \/ StoreFault(h)

Spec == Init /\ [][Next]_vars

\* the request handlers over a store that never throws, from the fresh store
NextReliable == \E h \in Handlers : Step(h)

SpecReliable == Fresh /\ [][NextReliable]_vars

\* one request handler beside the daily cron job
NextDaily ==
  \/ StepWithin("h1", MaxDailyOps)
  \/ StoreFault("h1")
  \/ DayChangeFor({"p1"})
  \/ JobStep("p1")
  \/ JobFault("p1")

SpecDaily == Init /\ [][NextDaily]_vars

\* the daily job in two processes over an unchanging ledger: every midnight
\* starts two runs for the same day, which overlap or follow each other
NextReruns ==
  \/ DayChangeFor(Jobs)
  \/ \E j \in Jobs : JobStep(j) \/ JobFault(j)

SpecReruns == Init /\ [][NextReruns]_vars

\* one request handler that receives its requests as they come in, over a
\* store whose operations may throw
NextIntake ==
  \/ /\ ops < MaxIntakeOps
     /\ \E id \in IntakeIds, body \in IntakeBodies : Intake("h1", id, body)
  \/ Proceed("h1")
  \/ StoreFault("h1")

SpecIntake == Init /\ [][NextIntake]_vars

\* registrations of the new accounts, with the daily job's upsert
NextRegister ==
  \E n \in NewIds :
    \/ \E role \in BodyRoles, code \in BodyCodes : AuthRegister(n, role, code)
    \/ \E caller \in {Root, "a1"} \cup NewIds : AgentRegister(n, caller)
    \/ RegisterSaveUser(n)
    \/ RegisterSaveStats(n)
    \/ RegisterFault(n)
    \/ UpsertNewAgentStats(n)

SpecRegister == Init /\ [][NextRegister]_vars

\* the daily job of one process over MaxReportDay days, with report queries
NextReports ==
  \/ DayChangeUpTo({"p1"}, MaxReportDay)
  \/ JobStep("p1")
  \/ JobFault("p1")
  \/ \E startDate \in QueryTimes, endDate \in QueryTimes : RangeReport(startDate, endDate)
  \/ \E jan1 \in Jan1Weekdays, weekNumber \in WeekNumbers : WeeklySummary(jan1, weekNumber)
  \/ \E kind \in {"range", "weekly"} : QueryFault(kind)

SpecReports == Init /\ [][NextReports]_vars

\* ------------------------------------------------------------------ claims

\* no request handler is between two of its store operations
Quiescent == \A h \in Handlers : req[h].pc = "idle"

RECURSIVE SignedSum(_, _)
\* the signed sum of the first n transactions that belong to account u
SignedSum(u, n) ==
  IF n = 0 THEN 0
  ELSE SignedSum(u, n - 1) +
       (IF transactions[n].user = u
        THEN Net(transactions[n].amount, transactions[n].type) ELSE 0)

\* C1: whenever no operation is in progress, every account's stored balance
\* is its initial balance (0 at registration) plus the signed sum of its
\* recorded transactions.
C1_BalanceIsLedgerSum ==
  Quiescent => \A u \in Users : credit[u] = InitialCredit + SignedSum(u, Len(transactions))

\* C2: once all concurrent adjust calls on a member account have ended, its
\* balance is its initial balance plus the net of the calls that reported
\* success: no successful call is lost or applied twice.
C2_NoLostUpdate ==
  Quiescent => \A m \in Members : credit[m] = InitialCredit + netOK[m]

\* C3: no deduct is committed for more than the balance stored at the moment
\* of its commit.
C3_DeductNeverExceedsStored ==
  \A i \in DOMAIN transactions :
    transactions[i].type = "deduct" =>
      transactions[i].amount <= transactions[i].storedOld

\* C4: the stored balance of every account is >= 0 in every reachable state.
C4_BalanceNonNegative == \A u \in Users : credit[u] >= 0

\* C4 witness: a deduct was committed against a balance a concurrent call had
\* already lowered below its amount, and balances are still not negative.
C4_Witness ==
  \E i \in DOMAIN transactions :
    /\ transactions[i].type = "deduct"
    /\ transactions[i].amount > transactions[i].storedOld
    /\ credit[transactions[i].user] >= 0

\* C5: every recorded Transaction has as balance-before the balance stored
\* right before the change and as balance-after the balance stored right
\* after it, and after = before + amount (add) or before - amount (deduct).
C5_TransactionMatchesStore ==
  \A i \in DOMAIN transactions :
    LET t == transactions[i] IN
    /\ t.oldCredit = t.storedOld
    /\ t.newCredit = t.oldCredit + Net(t.amount, t.type)

\* C6: an adjust call that fails after its balance write, without recording
\* its Transaction, leaves the account's balance as it was before that
\* write (stated for a call whose write hit the balance it had read and is
\* still the stored one).
C6_AllOrNothing ==
  [][\A h \in Handlers :
       ( /\ req[h].pc = "saveTx"
         /\ req'[h].pc = "idle"
         /\ transactions' = transactions
         /\ req[h].storedOld = req[h].oldCredit
         /\ credit[req[h].user] = req[h].newCredit )
       => credit'[req[h].user] = req[h].oldCredit]_vars

\* the handler h takes a step of the ledger operation (updateCredit)
LedgerStepOf(h) ==
  /\ req'[h] # req[h]
  /\ \/ req[h].pc \in LedgerSteps
     \/ req[h].pc = "idle"

\* the account the ledger step of h is about
LedgerAccount(h) == IF req[h].pc = "idle" THEN req'[h].user ELSE req[h].user

\* C7: a step of the ledger operation on account X changes no other
\* account's balance, no AgentStats record, no DailyReport and no existing
\* transaction, and appends at most one transaction, which belongs to X.
C7_LedgerFrame ==
  [][\A h \in Handlers :
       LedgerStepOf(h) =>
         /\ \A v \in Users : v # LedgerAccount(h) => credit'[v] = credit[v]
         /\ stats' = stats
         /\ reports' = reports
         /\ \/ transactions' = transactions
            \/ /\ Len(transactions') = Len(transactions) + 1
               /\ SubSeq(transactions', 1, Len(transactions)) = transactions
               /\ transactions'[Len(transactions')].user = LedgerAccount(h)]_vars

\* C7 witness: a ledger operation has written the balance of m2 and recorded
\* its transaction on the second day, while the first day's DailyReport is
\* stored, another account holds credit and a rollup is filled.
C7_Witness ==
  /\ \E i \in DOMAIN transactions :
       transactions[i].user = "m2" /\ transactions[i].createdAt = 2
  /\ reports[1].exists
  /\ credit["m2"] > 0
  /\ credit["m1"] > 0
  /\ stats["a1"].totalCredit > 0

\* C8: when calculateCommission completes for an agent with an AgentStats
\* record and a commission > 0, the agent has an 'add' Transaction of that
\* amount, totalCommission has risen by exactly the commission, one
\* commissionHistory entry of that amount was appended and the commission
\* is returned.
C8_CommissionThroughLedger ==
  [][\A h \in Handlers :
       ( /\ req[h].pc = "commSaveStats"
         /\ req'[h].pc = "idle"
         /\ stats' # stats
         /\ Round2(req[h].commission) > 0 )
       => LET c == Round2(req[h].commission)
              a == req[h].agent IN
          /\ stats'[a].totalCommission = stats[a].totalCommission + c * Scale
          /\ stats'[a].commissionHistory = Append(stats[a].commissionHistory, c)
          /\ ret'[h] = c * Scale
          /\ \E i \in DOMAIN transactions' :
               /\ transactions'[i].user = a
               /\ transactions'[i].type = "add"
               /\ transactions'[i].amount = c]_vars

\* C9: calculateCommission for an agent without an AgentStats record returns
\* 0 at its first read, the route still reports success, and no balance, no
\* AgentStats record and no transaction changes.
C9_NoStatsNoMutation ==
  [][\A h \in Handlers :
       ( /\ req[h].pc = "commFind"
         /\ ~ stats[req[h].agent].exists
         /\ req'[h] # req[h] )
       => /\ req'[h].pc = "idle"
          /\ ret'[h] = 0
          /\ netOK'[req[h].user] = netOK[req[h].user] + req[h].amount
          /\ credit' = credit
          /\ stats' = stats
          /\ transactions' = transactions]_vars

\* C9 witness: the addition to m2 reported success, so calculateCommission
\* has returned for its agent a2, which has no AgentStats record.
C9_Witness ==
  /\ netOK["m2"] > 0
  /\ ~ stats["a2"].exists
  /\ Quiescent

\* C10: while the commission rounds to <= 0.00, no step of
\* calculateCommission changes a balance or an AgentStats record, and the
\* call returns 0.
C10_ZeroCommissionNoMutation ==
  [][\A h \in Handlers :
       ( /\ req[h].pc \in {"commPopulate", "commSaveAgent", "commSaveStats"}
         /\ req'[h] # req[h]
         /\ Round2(req[h].commission) <= 0 )
       => /\ credit' = credit
          /\ stats' = stats
          /\ (req'[h].pc = "idle" => ret'[h] = 0)]_vars

\* the handler h takes a step of one of the two follow-ups of a member-level
\* addition (updateAgentStats, calculateCommission), a thrown one included
FollowUpStepOf(h) ==
  /\ req'[h] # req[h]
  /\ req[h].pc \in StatsSteps \cup CommSteps

\* C11: no step of updateAgentStats or calculateCommission, failing or not,
\* changes the balance of the member whose addition triggered it or removes
\* or alters a recorded transaction, and the request always ends by
\* reporting the addition as a success.
C11_FollowUpsContained ==
  [][\A h \in Handlers :
       FollowUpStepOf(h) =>
         /\ credit'[req[h].user] = credit[req[h].user]
         /\ transactions' = transactions
         /\ req'[h].pc \in StatsSteps \cup CommSteps \cup {"idle"}
         /\ req'[h].pc = "idle" =>
              netOK'[req[h].user] = netOK[req[h].user] + req[h].amount]_vars

\* C11 witness: from the fresh store, the addition of 40.00 to m1 was
\* reported as a success and is stored with its transaction, although its
\* commission of 0.02 was never recorded: calculateCommission failed.
C11_Witness ==
  /\ Quiescent
  /\ netOK["m1"] = 4000
  /\ credit["m1"] = 4000
  /\ \E i \in DOMAIN transactions :
       transactions[i].user = "m1" /\ transactions[i].amount = 4000
  /\ stats["a1"].commissionHistory = <<>>
  /\ credit["a1"] = 0

RECURSIVE BalanceSum(_)
\* the sum of the stored balances of the accounts in S
BalanceSum(S) ==
  IF S = {} THEN 0
  ELSE LET m == CHOOSE x \in S : TRUE IN credit[m] + BalanceSum(S \ {m})

\* the member accounts whose parent is agent a
MembersOf(a) == {m \in Members : Parent(m) = a}

\* the handler h completes updateAgentStats: its save step is taken and has
\* written, or had nothing to write
RecomputeCompletes(h) ==
  /\ req[h].pc = "statsSave"
  /\ req'[h].pc = "commFind"
  /\ \/ stats' # stats
     \/ req[h].counted = req[h].loaded

\* C12: with one request handler (no concurrent writer of balances or of the
\* rollup), when updateAgentStats completes the agent's record has
\* totalMembers = number of member accounts below the agent, activeMembers =
\* number of those with balance > 0, totalCredit = sum of their balances.
C12_RecomputeExact ==
  [][\A h \in Handlers :
       RecomputeCompletes(h) =>
         LET a == req[h].agent IN
         /\ stats'[a].totalMembers = Cardinality(MembersOf(a))
         /\ stats'[a].activeMembers = Cardinality({m \in MembersOf(a) : credit'[m] > 0})
         /\ stats'[a].totalCredit = BalanceSum(MembersOf(a))']_vars

\* C12 witness: after a second addition of 40.00 to m1 the rollup of a1 has
\* been recomputed: two members, one of them active, 80.00 in total.
C12_Witness ==
  /\ credit["m1"] = 8000
  /\ stats["a1"].totalMembers = 2
  /\ stats["a1"].activeMembers = 1
  /\ stats["a1"].totalCredit = 8000

C14_RecomputeFrame ==
  [][\A h \in Handlers :
       (req[h].pc \in StatsSteps /\ req'[h] # req[h]) =>
         \A a \in Users :
           /\ stats'[a].commissionRate = stats[a].commissionRate
           /\ stats'[a].totalCommission = stats[a].totalCommission
           /\ stats'[a].commissionHistory = stats[a].commissionHistory]_vars

\* C14 witness: a handler is about to save the rollup of a1 that it loaded
\* from the new record (all zero); since that read another handler's
\* updateAgentStats has saved the rollup and its calculateCommission has
\* committed a commission of 0.02 to the same record.
C14_Witness ==
  \E h \in Handlers :
    /\ req[h].pc = "statsSave"
    /\ req[h].agent = "a1"
    /\ req[h].loaded = <<0, 0, 0>>
    /\ stats["a1"].totalMembers = 2
    /\ stats["a1"].totalCommission = 2 * Scale
    /\ stats["a1"].commissionHistory = <<2>>

\* the process j completes a run for a day whose DailyReport is already
\* stored: its last step, the report upsert, is taken
RerunCompletes(j) ==
  /\ job[j].pc = "upsertReport"
  /\ job'[j].pc = "idle"
  /\ reports[job[j].day].exists

\* C15: over an unchanging ledger, a run of the daily job that ends when a
\* DailyReport for its day is already stored (a run of the other process
\* that overlapped or preceded it) leaves one report for that day, with the
\* same totalCreditMovement, totalCommission and per-agent sub-reports, and
\* leaves the reports of all other days alone.
C15_OneReportSameTotals ==
  [][\A j \in Jobs :
       RerunCompletes(j) =>
         LET d == job[j].day IN
         /\ reports'[d].exists
         /\ reports'[d].totalCreditMovement = reports[d].totalCreditMovement
         /\ reports'[d].totalCommission = reports[d].totalCommission
         /\ reports'[d].agentReports = reports[d].agentReports
         /\ \A e \in Days : e # d => reports'[e] = reports[e]]_vars

\* C15 witness: the report of day 1 is stored with a credit movement of
\* 40.00 while the run of the other process for day 1, started at the same
\* midnight, has reached its own report upsert.
C15_Witness ==
  \E j \in Jobs :
    /\ job[j].pc = "upsertReport"
    /\ job[j].day = 1
    /\ job[j].totalCreditMovement = 4000
    /\ reports[1].exists
    /\ reports[1].totalCreditMovement = 4000

\* the process j takes a step of a run for a day whose DailyReport is
\* already stored
RerunStepOf(j) ==
  /\ job'[j] # job[j]
  /\ job[j].pc \notin {"idle", "exited"}
  /\ reports[job[j].day].exists

RECURSIVE MemberMovement(_, _, _)
\* the signed sum of the first n transactions that were created on day d
\* for an account whose parent is agent a
MemberMovement(a, d, n) ==
  IF n = 0 THEN 0
  ELSE MemberMovement(a, d, n - 1) +
       (IF transactions[n].createdAt = d /\ Parent(transactions[n].user) = a
        THEN Net(transactions[n].amount, transactions[n].type) ELSE 0)

\* C17: in every stored DailyReport, each agent's sub-report has
\* creditMovement = signed sum of the day's transactions of the agent's direct
\* members and commission = round2(creditMovement * 0.01).
C17_SubReportIsMemberMovement ==
  \A d \in Days :
    reports[d].exists =>
      \A i \in DOMAIN reports[d].agentReports :
        LET r == reports[d].agentReports[i] IN
        /\ r.creditMovement = MemberMovement(r.agent, d, Len(transactions))
        /\ r.commission = Round2(r.creditMovement * ReportPercent * (Scale \div 100))

\* C18: a run of the daily job executes its upsert of an agent's AgentStats
\* (the totalCommission increment) only when the DailyReport of its day is
\* already stored.
C18_ReportBeforeIncrements ==
  [][\A j \in Jobs :
       ( /\ job[j].pc = "upsertStats"
         /\ job'[j].pc \in {"findMembers", "countMembers"} )
       => reports[job[j].day].exists]_vars

C20_WholeHundredths ==
  /\ \A u \in Users :
       /\ credit[u] \in Int
       /\ stats[u].totalCredit \in Int
       /\ stats[u].totalCommission % Scale = 0
       /\ \A i \in DOMAIN stats[u].commissionHistory :
            stats[u].commissionHistory[i] \in Int
  /\ \A i \in DOMAIN transactions :
       /\ transactions[i].amount \in Int
       /\ transactions[i].oldCredit \in Int
       /\ transactions[i].newCredit \in Int
  /\ \A d \in Days :
       /\ reports[d].totalCreditMovement \in Int
       /\ reports[d].totalCommission \in Int
       /\ \A i \in DOMAIN reports[d].agentReports :
            /\ reports[d].agentReports[i].creditMovement \in Int
            /\ reports[d].agentReports[i].commission \in Int

\* C20 witness: every writer of money has written: a1 was credited a
\* commission of 0.02, a later commission of 0.000005 was recorded as 0.00,
\* and the daily job has created a2's record by its increment and stored the
\* report of day 1.
C20_Witness ==
  /\ stats["a1"].commissionHistory = <<2, 0>>
  /\ stats["a1"].totalCommission = 2 * Scale
  /\ credit["m1"] = 4001
  /\ stats["a2"].exists
  /\ reports[1].exists

\* an amount that is not a positive number of at most MaxAmount cents with at
\* most two decimal digits, judged by its value
NotAnAmount(text) ==
  LET v == ToNumber(text) IN
  \/ v.nan
  \/ v.m <= 0
  \/ CeilScaled(v, 2) > MaxAmount
  \/ FloorScaled(v, 2) # CeilScaled(v, 2)

\* C21: a request whose amount is non-positive, above 1,000,000 or has more
\* than two decimal digits is answered with the validation error, and a
\* request with a valid amount for an id no account is stored under is
\* answered with 404; in both cases the handler does not go on and no
\* balance and no transaction changes.
C21_InvalidRequestsRejected ==
  [][intake'.seq # intake.seq =>
       /\ NotAnAmount(intake'.text) =>
            /\ intake'.answer = InvalidAmount
            /\ req' = req /\ credit' = credit /\ transactions' = transactions
       /\ (~ NotAnAmount(intake'.text) /\ intake'.id \notin Users) =>
            /\ intake'.answer = AccountNotFound
            /\ req' = req /\ credit' = credit /\ transactions' = transactions]_vars

\* C22: the parent references of the stored accounts form a tree of depth at
\* most 2 below root: a superadmin has no parent, an agent's parent is a
\* superadmin, a member's parent is an agent.
C22_HierarchyDepthTwo ==
  \A n \in NewIds :
    accounts[n].stored =>
      /\ accounts[n].role = "superadmin" => accounts[n].parent = None
      /\ accounts[n].role = "agent" =>
           /\ RoleOf(accounts[n].parent) = "superadmin"
           /\ ParentOf(accounts[n].parent) = None
      /\ accounts[n].role = "member" => RoleOf(accounts[n].parent) = "agent"

\* no registration request is between its first and its last store call
NoRegistrationInProgress == \A n \in NewIds : accounts[n].state \in {"absent", "over"}

\* C23: while no registration is in progress, every stored agent has exactly
\* one AgentStats record and no other account has any; and an AgentStats
\* record comes into being only in the registration of its agent.
C23_OneStatsPerAgent ==
  /\ [](NoRegistrationInProgress =>
          \A n \in NewIds :
            accounts[n].statsRecords =
              IF accounts[n].stored /\ accounts[n].role = "agent" THEN 1 ELSE 0)
  /\ [][\A n \in NewIds :
          accounts'[n].statsRecords > accounts[n].statsRecords =>
            accounts[n].state = "statsSave" /\ accounts'[n].state = "over"]_vars

\* C24: a weekly summary whose span from Monday to Sunday holds no stored
\* DailyReport returns report count 0 and summary null.
C24_EmptyWeekGivesNullSummary ==
  [][(/\ query' # query
      /\ query'.kind = "weekly" /\ ~ query'.failed
      /\ \A d \in Days :
           reports[d].exists => ~ (query'.from.day <= d /\ d <= query'.to.day))
     => /\ query'.result[1].totalReports = 0
        /\ query'.result[1].summary = <<>>]_vars

\* a weekly summary of an empty week was returned while reports are stored
C24_Witness ==
  /\ query.kind = "weekly" /\ ~ query.failed
  /\ query.result[1].totalReports = 0
  /\ query.result[1].summary = <<>>
  /\ \E d \in Days : reports[d].exists

C26_ConcurrentCommissionsAdd ==
  (/\ Quiescent
   /\ \A h \in Handlers : ret[h] > 0 /\ ret[h] % Scale = 0
   /\ Len(transactions) = 2
   /\ \A i \in DOMAIN transactions : transactions[i].user \in MembersOf("a1"))
  => /\ credit["a1"] * Scale = ret["h1"] + ret["h2"]
     /\ stats["a1"].totalCommission = ret["h1"] + ret["h2"]
     /\ Len(stats["a1"].commissionHistory) = 2

\* C27: a calculateCommission call that returns 0 because its AgentStats save
\* failed, after its agent save had added the commission to the balance,
\* leaves the agent's balance as it was before that save.
C27_CommissionAllOrNothing ==
  [][\A h \in Handlers :
       ( /\ req[h].pc = "commSaveStats"
         /\ req'[h].pc = "idle"
         /\ ret'[h] = 0
         /\ stats' = stats
         /\ Round2(req[h].commission) > 0
         /\ credit[req[h].agent] = CreditedAgent(req[h].agentCredit, req[h].commission) )
       => credit'[req[h].agent] = req[h].agentCredit]_vars

\* C28: a request enters the follow-ups only in the step that records the
\* Transaction of an add on an account with a parent; every other step of a
\* request (a deduct, an adjust that fails, an adjust on an account without
\* parent) leaves every agent's balance and every AgentStats record as they
\* were.
C28_FollowUpsOnlyForParentedAdd ==
  [][\A h \in Handlers :
       /\ (req[h].pc \notin StatsSteps \cup CommSteps /\ req'[h].pc \in StatsSteps \cup CommSteps)
            => /\ req[h].type = "add"
               /\ Parent(req[h].user) # None
               /\ Len(transactions') = Len(transactions) + 1
       /\ ((req'[h] # req[h] \/ intake' # intake) /\ req[h].pc \notin StatsSteps \cup CommSteps)
            => /\ \A a \in Agents : credit'[a] = credit[a]
               /\ stats' = stats]_vars

\* a deduct on m1 and an add on m4, which has no parent, have both been
\* recorded and answered
C28_Witness ==
  /\ Quiescent
  /\ \E i \in DOMAIN transactions :
       transactions[i].user = "m1" /\ transactions[i].type = "deduct"
  /\ \E i \in DOMAIN transactions :
       transactions[i].user = "m4" /\ transactions[i].type = "add"

\* C29: every DailyReport counts in its totalCreditMovement exactly the
\* recorded transactions created on its day: none is left out and none of
\* another day is included.
C29_EveryTransactionInItsDaysReport ==
  \A d \in Days :
    reports[d].exists =>
      reports[d].totalCreditMovement =
        SumAmounts(SelectSeq(transactions, LAMBDA t : t.createdAt = d))

====
